---- MODULE Spec2Model ----
(***************************************************************************)
(* Model of blueprints/inference/gpu/ray-vllm/client.py: a script that     *)
(* builds an OpenAI-compatible client for a locally forwarded port, issues *)
(* one chat-completion call and prints the first choice's message.         *)
(*                                                                         *)
(* The script is the program; the openai library and the inference server  *)
(* are its environment.  Whatever the environment may do (construct or     *)
(* raise, answer with any number of choices, fail in any of the ways the   *)
(* client layer reports) is a nondeterministic choice.                     *)
(***************************************************************************)
EXTENDS Integers, Sequences, FiniteSets, TLC

VARIABLES
    pc,        \* position of the script
    model,     \* line 3
    port,      \* line 4
    prompt,    \* line 5
    client,    \* line 6: what OpenAI(...) was constructed with
    request,   \* lines 12-17: what chat.completions.create was called with
    response,  \* line 12: the value the call returned
    stdout,    \* line 18: the objects printed, in order
    calls,     \* number of chat-completion calls issued
    err        \* the exception that ended the run, "none" if none

vars == <<pc, model, port, prompt, client, request, response, stdout, calls, err>>

(* ------------------------------ bounds --------------------------------- *)

\* longest choices list the server answers with
MaxChoices == 2
\* cap of the calls counter (the script itself never reaches it)
MaxCalls == 3

(* --------------------------- Python values ----------------------------- *)

\* A Python value of type str or int; the unused field holds a default.
StrV(s) == [kind |-> "str", s |-> s, n |-> 0]
IntV(n) == [kind |-> "int", s |-> "", n |-> n]

Digit(d) ==
    CASE d = 0 -> "0" [] d = 1 -> "1" [] d = 2 -> "2" [] d = 3 -> "3"
      [] d = 4 -> "4" [] d = 5 -> "5" [] d = 6 -> "6" [] d = 7 -> "7"
      [] d = 8 -> "8" [] d = 9 -> "9"

\* str(n) of a Python int: decimal digits, no padding, "-" for negatives
RECURSIVE IntText(_)
IntText(n) ==
    IF n < 0 THEN "-" \o IntText(-n)
    ELSE IF n < 10 THEN Digit(n)
    ELSE IntText(n \div 10) \o Digit(n % 10)

\* the replacement field "{v}" of an f-string: format(v, ""), which is the
\* string itself for a str and the decimal text for an int
Format(v) == IF v.kind = "str" THEN v.s ELSE IntText(v.n)

(* ------------------------------ inputs --------------------------------- *)

Models  == {StrV(""), StrV("meta-llama/Llama-3-8B")}
Ports   == {StrV(""), StrV("8000"), StrV(" 8000 "), StrV("abc"),
            IntV(8000), IntV(0), IntV(80), IntV(-1)}
Prompts == {StrV("Hello"), StrV("")}

\* what the server may answer
Contents == {"X", "Hi there!"}
Messages == [role : {"assistant"}, content : Contents]
Choices  == [message : Messages]

RECURSIVE SeqsUpTo(_, _)
SeqsUpTo(S, n) ==
    IF n = 0 THEN {<<>>}
    ELSE LET shorter == SeqsUpTo(S, n - 1)
         IN  shorter \cup {Append(q, x) : q \in {r \in shorter : Len(r) = n - 1}, x \in S}

ChoiceLists == SeqsUpTo(Choices, MaxChoices)

\* failures the client layer surfaces from the call
ClientFailures == {"connection_refused", "timeout", "non_2xx_status",
                   "malformed_response", "authentication_failure"}

NoClient   == [constructed |-> FALSE, base_url |-> "", api_key |-> ""]
NoRequest  == [issued |-> FALSE, base_url |-> "", api_key |-> "",
               model |-> StrV(""), messages |-> <<>>]
NoResponse == [received |-> FALSE, hasChoices |-> FALSE, choices |-> <<>>]

(* ------------------------------ script --------------------------------- *)

\* lines 3-5: the three module-level assignments have been executed
Init ==
    /\ pc = "start"
    /\ model \in Models
    /\ port \in Ports
    /\ prompt \in Prompts
    /\ client = NoClient
    /\ request = NoRequest
    /\ response = NoResponse
    /\ stdout = <<>>
    /\ calls = 0
    /\ err = "none"

\* variant: an empty port is replaced by a default one
BaseUrlDefaultPort(p) ==
    "http://localhost:" \o (IF Format(p) = "" THEN "8000" ELSE Format(p)) \o "/v1"

\* line 7: f"http://localhost:{port}/v1"
BaseUrl(p) == "http://localhost:" \o Format(p) \o "/v1"

\* variant: the token is left empty
ApiKeyEmpty == ""

\* line 8
ApiKey == "token"

\* variant: construction is refused for an empty port
ConstructValidating ==
    /\ pc = "start"
    /\ Format(port) # ""
    /\ client' = [constructed |-> TRUE,
                  base_url |-> "http://localhost:" \o Format(port) \o "/v1",
                  api_key |-> "token"]
    /\ pc' = "constructed"
    /\ UNCHANGED <<model, port, prompt, request, response, stdout, calls, err>>

\* lines 6-9: client = OpenAI(base_url=..., api_key="token")
Construct ==
    /\ pc = "start"
    /\ client' = [constructed |-> TRUE, base_url |-> BaseUrl(port), api_key |-> ApiKey]
    /\ pc' = "constructed"
    /\ UNCHANGED <<model, port, prompt, request, response, stdout, calls, err>>

\* lines 6-9: the library's constructor raises; nothing catches it
ConstructRaises ==
    /\ pc = "start"
    /\ pc' = "failed"
    /\ err' = "constructor_error"
    /\ UNCHANGED <<model, port, prompt, client, request, response, stdout, calls>>

\* variant: a system message precedes the user message
MessagesWithSystem(p) ==
    <<[role |-> "system", content |-> "You are a helpful assistant."],
      [role |-> "user", content |-> Format(p)]>>

\* lines 14-16: [{"role": "user", "content": f"{prompt}"}]
MessagesOf(p) == <<[role |-> "user", content |-> Format(p)]>>

\* variant: the completions call of lines 22-25 is issued as well
IssueCallTwice ==
    /\ pc = "constructed"
    /\ calls < MaxCalls
    /\ request' = [issued |-> TRUE, base_url |-> client.base_url,
                   api_key |-> client.api_key, model |-> model,
                   messages |-> <<[role |-> "user", content |-> Format(prompt)]>>]
    /\ calls' = calls + 2
    /\ pc' = "waiting"
    /\ UNCHANGED <<model, port, prompt, client, response, stdout, err>>

\* variant: the call does not wait for the client to be constructed
IssueCallEarly ==
    /\ pc \in {"start", "constructed"}
    /\ calls < MaxCalls
    /\ request' = [issued |-> TRUE, base_url |-> client.base_url,
                   api_key |-> client.api_key, model |-> model,
                   messages |-> <<[role |-> "user", content |-> Format(prompt)]>>]
    /\ calls' = calls + 1
    /\ pc' = "waiting"
    /\ UNCHANGED <<model, port, prompt, client, response, stdout, err>>

\* lines 12-17: client.chat.completions.create(model=model, messages=[...])
\* is entered; the process blocks in it
IssueCall ==
    /\ pc = "constructed"
    /\ calls < MaxCalls
    /\ request' = [issued |-> TRUE, base_url |-> client.base_url,
                   api_key |-> client.api_key, model |-> model,
                   messages |-> MessagesOf(prompt)]
    /\ calls' = calls + 1
    /\ pc' = "waiting"
    /\ UNCHANGED <<model, port, prompt, client, response, stdout, err>>

\* line 12: the call returns and its value is bound to response; the library
\* does not validate the body, so choices may be a list of any length or None
CallReturns ==
    /\ pc = "waiting"
    /\ \/ \E cs \in ChoiceLists :
             response' = [received |-> TRUE, hasChoices |-> TRUE, choices |-> cs]
       \/ response' = [received |-> TRUE, hasChoices |-> FALSE, choices |-> <<>>]
    /\ pc' = "returned"
    /\ UNCHANGED <<model, port, prompt, client, request, stdout, calls, err>>

\* variant: a failed call is caught and the call is issued again
CallRaisesRetry ==
    /\ pc = "waiting"
    /\ \E f \in ClientFailures : err' = f
    /\ pc' = "constructed"
    /\ UNCHANGED <<model, port, prompt, client, request, response, stdout, calls>>

\* lines 12-17: the call raises; there is no try/except around it
CallRaises ==
    /\ pc = "waiting"
    /\ \E f \in ClientFailures : err' = f
    /\ pc' = "failed"
    /\ UNCHANGED <<model, port, prompt, client, request, response, stdout, calls>>

\* variant: the last element is taken instead of the one at index i
IndexLast(seq, i) == seq[Len(seq)]

\* Python's zero-based seq[i]
Index0(seq, i) == seq[i + 1]

\* line 18: the exception raised by response.choices[0], "none" if none
SubscriptError(resp) ==
    IF ~resp.hasChoices THEN "TypeError"
    ELSE IF Len(resp.choices) = 0 THEN "IndexError"
    ELSE "none"

\* variant: an empty choices list prints an empty message instead of raising
PrintFirstOrDefault ==
    /\ pc = "returned"
    /\ IF ~response.hasChoices
       THEN /\ stdout' = stdout
            /\ pc' = "failed"
            /\ err' = "TypeError"
       ELSE /\ stdout' = Append(stdout,
                                IF Len(response.choices) = 0
                                THEN [role |-> "assistant", content |-> ""]
                                ELSE response.choices[1].message)
            /\ pc' = "done"
            /\ err' = err
    /\ UNCHANGED <<model, port, prompt, client, request, response, calls>>

\* variant: after printing, the script goes back to issue the call again
PrintFirstLoop ==
    /\ pc = "returned"
    /\ IF response.hasChoices /\ Len(response.choices) > 0
       THEN /\ stdout' = <<response.choices[1].message>>
            /\ pc' = "constructed"
            /\ err' = err
       ELSE /\ stdout' = stdout
            /\ pc' = "failed"
            /\ err' = IF response.hasChoices THEN "IndexError" ELSE "TypeError"
    /\ UNCHANGED <<model, port, prompt, client, request, response, calls>>

\* line 18: print(response.choices[0].message)
PrintFirst ==
    /\ pc = "returned"
    /\ IF SubscriptError(response) = "none"
       THEN /\ stdout' = Append(stdout, Index0(response.choices, 0).message)
            /\ pc' = "done"
            /\ err' = err
       ELSE /\ stdout' = stdout
            /\ pc' = "failed"
            /\ err' = SubscriptError(response)
    /\ UNCHANGED <<model, port, prompt, client, request, response, calls>>

Next ==
    \/ Construct
    \/ ConstructRaises
    \/ IssueCall
    \/ CallReturns
    \/ CallRaises
    \/ PrintFirst

Spec == Init /\ [][Next]_vars

\* the steps the script takes by itself, and the answer of its environment
ScriptStep == Construct \/ ConstructRaises \/ IssueCall \/ PrintFirst
CallEnds   == CallReturns \/ CallRaises

\* the interpreter runs the script's statements one after the other; the
\* call ends provided the server responds or the transport fails
LiveSpec == Spec /\ WF_vars(ScriptStep) /\ WF_vars(CallEnds)

TypeOK ==
    /\ pc \in {"start", "constructed", "waiting", "returned", "done", "failed"}
    /\ model \in Models /\ port \in Ports /\ prompt \in Prompts
    /\ client.constructed \in BOOLEAN
    /\ request.issued \in BOOLEAN
    /\ response.received \in BOOLEAN
    /\ response.choices \in ChoiceLists
    /\ Len(stdout) <= MaxCalls
    /\ calls \in 0..MaxCalls
    /\ err \in {"none", "constructor_error", "TypeError", "IndexError"} \cup ClientFailures

Terminated == pc \in {"done", "failed"}

(* ============================== claims ================================= *)

Prefix == "http://localhost:"
Suffix == "/v1"

\* C1: once the client is constructed, its base URL is exactly
\* "http://localhost:" followed by the text of the port followed by "/v1",
\* for string and integer ports alike, whatever the model and prompt are;
\* nothing is trimmed, defaulted or normalised.
C1_BaseUrlExact ==
    client.constructed =>
        /\ client.base_url = Prefix \o Format(port) \o Suffix
        /\ port.kind = "str" => client.base_url = Prefix \o port.s \o Suffix
        /\ port = IntV(8000) => client.base_url = "http://localhost:8000/v1"
        /\ port = StrV("8000") => client.base_url = "http://localhost:8000/v1"
        /\ port = IntV(0) => client.base_url = "http://localhost:0/v1"
        /\ port = IntV(-1) => client.base_url = "http://localhost:-1/v1"
        /\ port = StrV(" 8000 ") => client.base_url = "http://localhost: 8000 /v1"
        /\ port = StrV("") => client.base_url = "http://localhost:/v1"

C1_Witness ==
    /\ client.constructed
    /\ port = IntV(8000)
    /\ client.base_url = "http://localhost:8000/v1"
    /\ model = StrV("meta-llama/Llama-3-8B")

\* C2: the request issued carries the configured model and exactly one
\* message, of role "user" and with the prompt as its content; no system or
\* assistant message is included.
C2_RequestPayload ==
    request.issued =>
        /\ request.model = model
        /\ Len(request.messages) = 1
        /\ request.messages[1].role = "user"
        /\ request.messages[1].content = prompt.s
        /\ \A i \in DOMAIN request.messages :
               request.messages[i].role \notin {"system", "assistant"}

C2_Witness ==
    /\ request.issued
    /\ prompt = StrV("Hello")
    /\ request.messages = <<[role |-> "user", content |-> "Hello"]>>
    /\ request.model = StrV("meta-llama/Llama-3-8B")

\* C3: when the response has at least one choice, what is printed is the
\* message of the choice at index 0, unchanged, whatever the number of
\* choices and whatever the later choices hold.
C3_FirstChoicePrinted ==
    (pc = "done" \/ stdout # <<>>) =>
        /\ response.received /\ response.hasChoices
        /\ Len(response.choices) >= 1
        /\ stdout = <<response.choices[1].message>>

C3_Witness ==
    /\ pc = "done"
    /\ Len(response.choices) = 2
    /\ response.choices[2].message # response.choices[1].message
    /\ stdout = <<response.choices[1].message>>

\* C4: when the response carries zero choices, the run ends in the failed
\* state with an IndexError and nothing is ever printed; it never reaches
\* the printed state and no default output is produced.
C4_EmptyChoicesFail ==
    (response.received /\ response.hasChoices /\ response.choices = <<>>) =>
        /\ stdout = <<>>
        /\ pc \in {"returned", "failed"}
        /\ pc = "failed" => err = "IndexError"
        /\ pc = "returned" => ~ENABLED (PrintFirst /\ pc' = "done")

C4_Witness ==
    /\ response.received /\ response.hasChoices /\ response.choices = <<>>
    /\ pc = "failed"
    /\ err = "IndexError"
    /\ stdout = <<>>

\* C5: a failure of the client layer during the call ends the run: the state
\* is failed, no step is possible after it (no retry, no further call) and
\* nothing has been printed.
C5_CallFailureIsFinal ==
    err \in ClientFailures =>
        /\ pc = "failed"
        /\ calls = 1
        /\ stdout = <<>>
        /\ ~response.received
        /\ ~ENABLED Next

C5_Witness ==
    /\ err = "connection_refused"
    /\ pc = "failed"
    /\ calls = 1

\* C6: at most one call and at most one print; a print implies a completed
\* call; a finished run is either one call and one print, or a failure with
\* no print.
C6_OneCallOnePrint ==
    /\ calls <= 1
    /\ Len(stdout) <= 1
    /\ Len(stdout) = 1 => (calls = 1 /\ response.received /\ pc = "done")
    /\ Terminated =>
          \/ pc = "done" /\ calls = 1 /\ Len(stdout) = 1 /\ err = "none"
          \/ pc = "failed" /\ Len(stdout) = 0 /\ err # "none"

C6_Witness ==
    /\ pc = "done"
    /\ calls = 1
    /\ Len(stdout) = 1
    /\ err = "none"

\* the one path of the script
StraightLine == {<<"start", "constructed">>, <<"constructed", "waiting">>,
                 <<"waiting", "returned">>, <<"returned", "done">>}
\* the positions an exception can leave
RaisePoints == {"start", "waiting", "returned"}

\* C7: construct, then call, then print: a call is issued only with a
\* constructed client, a print happens only after the call has returned, and
\* every step either follows the one straight-line path or is an exception
\* ending the run.
C7_FixedOrder ==
    [][ /\ calls' > calls => (client.constructed /\ pc = "constructed")
        /\ request' # request => (client.constructed /\ pc = "constructed")
        /\ stdout' # stdout => (response.received /\ pc = "returned")
        /\ client' # client => pc = "start"
        /\ pc' # pc => \/ <<pc, pc'>> \in StraightLine
                       \/ (pc \in RaisePoints /\ pc' = "failed" /\ err' # "none")
      ]_vars

C7_Witness ==
    /\ pc = "done"
    /\ client.constructed /\ request.issued /\ response.received
    /\ stdout # <<>>

\* C8: provided the call eventually returns or fails, every run terminates,
\* printed or failed; while the call is pending the script has no step of
\* its own (no timeout, no cancellation).
C8_Terminates ==
    /\ [](pc = "waiting" => ~ENABLED ScriptStep)
    /\ <>Terminated

C8_Witness ==
    /\ Terminated
    /\ request.issued
    /\ calls = 1

\* C9: no input is rejected or replaced by the script: construction is
\* possible for every model, port and prompt, the call is possible for every
\* constructed client, the values sent are the values given (the empty
\* strings included), and no failure before the call comes from the script.
C9_NoValidation ==
    /\ pc = "start" => ENABLED Construct
    /\ pc = "constructed" => ENABLED IssueCall
    /\ client.constructed => client.base_url = Prefix \o Format(port) \o Suffix
    /\ request.issued =>
          /\ request.model = model
          /\ request.base_url = Prefix \o Format(port) \o Suffix
          /\ request.messages[1].content = Format(prompt)
    /\ (request.issued /\ model = StrV("") /\ port = StrV("")) =>
          /\ request.base_url = "http://localhost:/v1"
          /\ request.model = StrV("")
    /\ (pc = "failed" /\ ~request.issued) => err = "constructor_error"

C9_Witness ==
    /\ request.issued
    /\ model = StrV("") /\ port = StrV("") /\ prompt = StrV("")
    /\ request.base_url = "http://localhost:/v1"
    /\ request.messages[1].content = ""

\* C10: the bearer token is always "token", and after construction the
\* configuration (model, port, prompt, base URL, token) never changes: the
\* request is sent with the values set at construction.
C10_TokenAndFrame ==
    /\ [](client.constructed => client.api_key = "token")
    /\ [](request.issued => /\ request.api_key = "token"
                            /\ request.base_url = client.base_url)
    /\ [][client.constructed => UNCHANGED <<model, port, prompt, client>>]_vars

C10_Witness ==
    /\ pc = "done"
    /\ client.api_key = "token"
    /\ request.api_key = "token"
    /\ port = StrV("abc")
====
